---- MODULE Spec2Model ----
(***************************************************************************)
(* The controlled-value / mode-switch synchronisation core of the Editor   *)
(* component (editor.tsx): the value adapter effect, the setEditable       *)
(* effect, the mode transition effect with its asynchronous transform      *)
(* hooks, the debounced source textarea and the unmount cleanup.           *)
(*                                                                         *)
(* A render and the effects it triggers are one step: React commits the    *)
(* render and runs the effects of that commit before the next event is     *)
(* handled.  The state is taken from the moment the document engine        *)
(* exists (useEditor has produced the editor and the mount effects ran).   *)
(* The debounce delay is abstracted: an outstanding timer may fire at any  *)
(* later moment unless it was cleared.                                     *)
(***************************************************************************)
EXTENDS Naturals, Sequences, FiniteSets, Bags, TLC

\* ------------------------------------------------------------------ bounds
NumLetters == 1      \* distinct non-empty paragraph texts
MaxInflight == 1     \* transform-hook calls that may be pending at once
MaxTimerIds == 2     \* timer handles the runtime may have outstanding
BurstCap == 2        \* keystrokes counted per burst (the count saturates)

\* ----------------------------------------------------- the document engine
AllLetters == <<"a", "b", "c">>
Letters == {AllLetters[i] : i \in 1..NumLetters}

\* A document is an empty paragraph ("") or one paragraph of text.
Docs == {""} \cup Letters

Formats == {"html", "markdown"}
Modes == {"wysiwyg", "source"}

\* editor.getHTML()
getHTML(d) == "<p>" \o d \o "</p>"

\* editor.getMarkdown()
getMarkdown(d) == d

\* format === "markdown" ? editor.getMarkdown() : editor.getHTML()
Serialize(d, fmt) == IF fmt = "markdown" THEN getMarkdown(d) ELSE getHTML(d)

\* The strings the owner, the textarea and the hooks can produce.
Strings == Docs \cup {getHTML(d) : d \in Docs}

\* The document the engine builds from a string (contentType: format).
\* Bare text becomes a paragraph; a <p> element is a paragraph in both
\* the HTML parser and the markdown parser (inline HTML block).
Parse(s, fmt) == IF s \in Docs THEN s ELSE CHOOSE d \in Docs : getHTML(d) = s

\* The content expression without the placeholder substitution.
ContentOrPlaceholderNone(v, fmt) == v

\* value || (format === "markdown" ? "" : "<p></p>")
ContentOrPlaceholder(v, fmt) ==
  IF v # "" THEN v ELSE IF fmt = "markdown" THEN "" ELSE "<p></p>"

\* ------------------------------------------------------------------- state
VARIABLES
  value,             \* prop: external controlled value
  mode,              \* prop: "wysiwyg" | "source"
  disabled,          \* prop
  format,            \* prop, fixed per instance
  hasSwitchToSource, \* prop onSwitchToSource is configured
  hasSwitchToEditor, \* prop onSwitchToEditor is configured
  showLinkInput,     \* useState(false)
  sourceValue,       \* useState("")
  prevModeRef,       \* useRef(mode)
  sourceDebounceRef, \* useRef(null): 0 is null, otherwise a timer handle
  timers,            \* outstanding setTimeout callbacks [id, nextValue]
  content,           \* the document held by the engine
  editable,          \* the engine's editable flag
  mounted,           \* the component has not been torn down
  inflight,          \* bag of pending hook calls (see Tasks)
  \* observation of the last step
  lastOp,            \* which operation ran
  onChangeCalls,     \* the onChange calls it made (sequence of strings)
  lastSet,           \* the setContent it made: [kind, arg]
  hookCall,          \* the hook invocation it made: <<>> or <<[hook, arg, fmt]>>
  burstEnd,          \* the keystroke burst it ended: [how, key, keys]
  roundTrip,         \* for an exit: the snapshot of the untouched session, or "-"
  pre,               \* for a render or a hook resolution: what it started from
  settled,           \* for a hook resolution: the pending call and its result
  \* history
  lastKey,           \* value of the last keystroke of the burst in progress
  burstKeys,         \* keystrokes of the burst in progress, saturating at
                     \* BurstCap; 0 when no burst is in progress
  enterSnapshot,     \* serialized content on entry of the source session in
                     \* progress; "-" once typed into, or outside a session
  sug,               \* the slash-command suggestion session, the document
                     \* at the cursor and the observation of its last step
                     \* (Idle where the session is not followed):
                     \*   active         the plugin has an active trigger range
                     \*   query          props.query, the characters after "/"
                     \*   items          props.items of CommandsList
                     \*   selectedIndex  useState(0) of CommandsList (0-based)
                     \*   popup          the tippy instance: "null", "shown"
                     \*                  or "hidden"
                     \*   rangeText      the text of the trigger range
                     \*   block          the block at the cursor:
                     \*                  [type, level, list, quote]
                     \*   slashOp        which handler ran last
                     \*   keyResult      what render.onKeyDown returned:
                     \*                  "handled", "unhandled", or "-" when
                     \*                  the step was not a key
                     \*   prevented      event.preventDefault() was called
                     \*   ran            the title of the item whose command
                     \*                  was called, or "none"
                     \*   inserted       the node the command inserted, or
                     \*                  "none"
                     \*   prompted       what window.prompt returned, or "-"
                     \*   blockBefore    the block as the step found it
                     \*   tx             the transactions dispatched
                     \*   before         the session as the step found it
  menu               \* the bubble-menu Editor variant: its popovers, the
                     \* selection context and the observation of its last
                     \* step (Idle where the variant is not followed):
                     \*   showLinkInput, showTableActions, showAltInput,
                     \*   isInTable, isOnImage, linkUrl, imageAltText
                     \*                  the useState values of the variant
                     \*   disabled       prop
                     \*   linkHref       href of the link at the selection,
                     \*                  or "none"
                     \*   imageAlt       alt of the selected image, or "none"
                     \*   op             which handler ran last
                     \*   prev           the popovers as the step found them

sugActive == sug.active
query == sug.query
items == sug.items
selectedIndex == sug.selectedIndex
popup == sug.popup
rangeText == sug.rangeText
block == sug.block
slashOp == sug.slashOp
keyResult == sug.keyResult
prevented == sug.prevented
ran == sug.ran
inserted == sug.inserted
prompted == sug.prompted
blockBefore == sug.blockBefore
tx == sug.tx
before == sug.before

props == <<value, mode, disabled, format, hasSwitchToSource, hasSwitchToEditor>>
state == <<showLinkInput, sourceValue, prevModeRef, sourceDebounceRef, timers,
           content, editable, mounted, inflight>>
obs == <<lastOp, onChangeCalls, lastSet, hookCall, burstEnd, roundTrip,
         pre, settled>>
hist == <<lastKey, burstKeys, enterSnapshot>>
slash == sug
bubble == menu
editor == <<props, state, obs, hist>>
vars == <<editor, slash, bubble>>

NoSet == [kind |-> "none", arg |-> ""]
SilentSet(s) == [kind |-> "silent", arg |-> s]
NormalSet(s) == [kind |-> "normal", arg |-> s]
InitialContent(s) == [kind |-> "initial", arg |-> s]

NoBurstEnd == [how |-> "none", key |-> "", keys |-> 0]
BurstEnded(how) == [how |-> how, key |-> lastKey, keys |-> burstKeys]

NoPre == [content |-> "-", sourceValue |-> "-", mode |-> "-", modeProp |-> "-",
          pending |-> EmptyBag, link |-> "-", timers |-> {}]
Pre == [content |-> content, sourceValue |-> sourceValue, mode |-> prevModeRef,
        modeProp |-> mode, pending |-> inflight]
PreContent == [NoPre EXCEPT !.content = content]
PreSource == [NoPre EXCEPT !.sourceValue = sourceValue]
PreReject == [NoPre EXCEPT !.content = content, !.sourceValue = sourceValue,
                           !.pending = inflight, !.link = showLinkInput,
                           !.timers = timers]

NoSettle == [kind |-> "-", arg |-> "-", result |-> "-"]
Settled(task, r) == [kind |-> task.kind, arg |-> task.arg, result |-> r]

\* A pending hook call is its continuation: the rest of enterSourceMode()
\* reads nothing that was captured before the await, the rest of
\* exitSourceMode() reads the sourceValue of the render that started it.
EnterTask == [kind |-> "enter", arg |-> "-"]
ExitTask(captured) == [kind |-> "exit", arg |-> captured]
Tasks == {EnterTask} \cup {ExitTask(s) : s \in Strings}
TimerIds == 1..MaxTimerIds

\* ------------------------------------------------------------------- Init
\* A mount whose mode effect starts from useRef("wysiwyg"): mounted in
\* source mode it runs enterSourceMode().
InitEditorEnterOnMount ==
  /\ value \in Strings
  /\ mode \in Modes
  /\ disabled \in BOOLEAN
  /\ format \in Formats
  /\ hasSwitchToSource \in BOOLEAN
  /\ hasSwitchToEditor \in BOOLEAN
  /\ showLinkInput = FALSE
  /\ sourceValue = IF mode = "source" /\ ~hasSwitchToSource
                     THEN Serialize(Parse(ContentOrPlaceholder(value, format),
                                          format), format)
                     ELSE ""
  /\ prevModeRef = mode
  /\ sourceDebounceRef = 0
  /\ timers = {}
  /\ content = Parse(ContentOrPlaceholder(value, format), format)
  /\ editable = (~disabled /\ mode # "source")
  /\ mounted = TRUE
  /\ inflight = IF mode = "source" /\ hasSwitchToSource
                  THEN SetToBag({EnterTask}) ELSE EmptyBag
  /\ lastOp = "mount"
  /\ onChangeCalls = <<>>
  /\ lastSet = InitialContent(ContentOrPlaceholder(value, format))
  /\ hookCall = IF mode = "source" /\ hasSwitchToSource
                  THEN <<[hook |-> "onSwitchToSource",
                          arg |-> Serialize(Parse(ContentOrPlaceholder(value, format),
                                                  format), format),
                          fmt |-> format]>>
                  ELSE <<>>
  /\ burstEnd = NoBurstEnd
  /\ roundTrip = "-"
  /\ pre = NoPre
  /\ settled = NoSettle
  /\ lastKey = ""
  /\ burstKeys = 0
  /\ enterSnapshot = "-"

\* useEditor({ content: value || placeholder, editable: !disabled }) followed
\* by the mount run of the effects: the value sync effect re-parses `value`
\* silently when it is not in serialized form, setEditable runs, the mode
\* effect sees prevModeRef.current === mode.
InitEditor ==
  /\ value \in Strings
  /\ mode \in Modes
  /\ disabled \in BOOLEAN
  /\ format \in Formats
  /\ hasSwitchToSource \in BOOLEAN
  /\ hasSwitchToEditor \in BOOLEAN
  /\ showLinkInput = FALSE
  /\ sourceValue = ""
  /\ prevModeRef = mode
  /\ sourceDebounceRef = 0
  /\ timers = {}
  /\ content = Parse(ContentOrPlaceholder(value, format), format)
  /\ editable = (~disabled /\ mode # "source")
  /\ mounted = TRUE
  /\ inflight = EmptyBag
  /\ lastOp = "mount"
  /\ onChangeCalls = <<>>
  /\ lastSet = InitialContent(ContentOrPlaceholder(value, format))
  /\ hookCall = <<>>
  /\ burstEnd = NoBurstEnd
  /\ roundTrip = "-"
  /\ pre = NoPre
  /\ settled = NoSettle
  /\ lastKey = ""
  /\ burstKeys = 0
  /\ enterSnapshot = "-"

\* No suggestion session: the plugin is inactive, no CommandsList and no
\* popup exist.
NoSession == [active |-> FALSE, query |-> <<>>, items |-> <<>>,
              selectedIndex |-> 0, popup |-> "null"]
Session == [active |-> sugActive, query |-> query, items |-> items,
            selectedIndex |-> selectedIndex, popup |-> popup]

\* Nothing has been typed yet with the cursor in block b.
InitSug(b) ==
  [active |-> FALSE, query |-> <<>>, items |-> <<>>, selectedIndex |-> 0,
   popup |-> "null", rangeText |-> <<>>, block |-> b, slashOp |-> "none",
   keyResult |-> "-", prevented |-> FALSE, ran |-> "none",
   inserted |-> "none", prompted |-> "-", blockBefore |-> b, tx |-> <<>>,
   before |-> NoSession]

\* The suggestion plugin in the specification of the Editor: no "/" is
\* typed there, the plugin stays idle and its record is not followed.
\* Likewise the bubble-menu variant where it is not the component followed.
Idle == "idle"

Init ==
  /\ InitEditor
  /\ sug = Idle
  /\ menu = Idle

\* ----------------------------------------------------- engine operations
\* editor.commands.setContent(s, { emitUpdate, contentType: format }): the
\* document is replaced by the parse of s; unless the update is suppressed
\* the engine emits "update" and onUpdate calls
\* onChange(format === "markdown" ? getMarkdown() : getHTML()).
setContent(s, emitUpdate) ==
  /\ content' = Parse(s, format)
  /\ lastSet' = IF emitUpdate THEN NormalSet(s) ELSE SilentSet(s)
  /\ onChangeCalls' = IF emitUpdate
                        THEN <<Serialize(Parse(s, format), format)>>
                        ELSE <<>>

\* No setContent in this step.
noSetContent ==
  /\ content' = content
  /\ lastSet' = NoSet
  /\ onChangeCalls' = <<>>

\* clearTimeout(id)
clearTimeout(id) == {t \in timers : t.id # id}

\* setTimeout(cb, sourceDebounceMs): the handle the runtime returns is one
\* that no outstanding timer has.
FreeTimerIds(ts) == {i \in TimerIds : \A t \in ts : t.id # i}
NewTimerId(ts) == CHOOSE i \in FreeTimerIds(ts) : \A j \in FreeTimerIds(ts) : i <= j

\* The comparison without the previous mode.
TransitionNoPrev(prev, now) == IF now = "source" THEN "enter" ELSE "exit"

\* wasSource / nowSource comparison of the mode effect.
Transition(prev, now) ==
  IF prev # "source" /\ now = "source" THEN "enter"
  ELSE IF prev = "source" /\ now # "source" THEN "exit"
  ELSE "none"

\* A render that does not change `mode` re-runs the mode effect at most in
\* its wasSource = nowSource branch.
ModeEffectIdle ==
  /\ Transition(prevModeRef, mode) = "none"
  /\ prevModeRef' = mode

\* ------------------------------------------------------ value sync effect
\* The value sync effect with the emitUpdate: false option dropped.
ValueSyncEffectEcho(v) ==
  LET current == Serialize(content, format) IN
  IF v # current
    THEN setContent(ContentOrPlaceholder(v, format), TRUE)
    ELSE noSetContent

\* useEffect(..., [editor, value, format]) with the new value v.
ValueSyncEffect(v) ==
  LET current == Serialize(content, format) IN
  IF v # current
    THEN setContent(ContentOrPlaceholder(v, format), FALSE)
    ELSE noSetContent

\* A re-render with another `value` that also copies it into the source
\* buffer while in source mode.
SetValueIntoBuffer(v) ==
  /\ UNCHANGED <<slash, bubble>>
  /\ mounted
  /\ v # value
  /\ value' = v
  /\ ValueSyncEffect(v)
  /\ sourceValue' = IF mode = "source" THEN v ELSE sourceValue
  /\ lastOp' = "value"
  /\ pre' = PreContent
  /\ settled' = NoSettle
  /\ burstEnd' = NoBurstEnd
  /\ roundTrip' = "-"
  /\ hookCall' = <<>>
  /\ ModeEffectIdle
  /\ UNCHANGED <<mode, disabled, format, hasSwitchToSource, hasSwitchToEditor>>
  /\ UNCHANGED <<showLinkInput, sourceDebounceRef, timers,
                 editable, mounted, inflight>>
  /\ UNCHANGED hist

\* The owner re-renders the component with another `value`.
SetValue(v) ==
  /\ UNCHANGED <<slash, bubble>>
  /\ mounted
  /\ v # value
  /\ value' = v
  /\ ValueSyncEffect(v)
  /\ lastOp' = "value"
  /\ pre' = PreContent
  /\ settled' = NoSettle
  /\ burstEnd' = NoBurstEnd
  /\ roundTrip' = "-"
  /\ hookCall' = <<>>
  /\ ModeEffectIdle
  /\ UNCHANGED <<mode, disabled, format, hasSwitchToSource, hasSwitchToEditor>>
  /\ UNCHANGED <<showLinkInput, sourceValue, sourceDebounceRef, timers,
                 editable, mounted, inflight>>
  /\ UNCHANGED hist

\* ------------------------------------------------------ setEditable effect
\* setEditable without the source-mode term.
EditableEffectNoMode(dis, m) == editable' = ~dis

\* editor.setEditable(!disabled && !isSourceMode)
EditableEffect(dis, m) == editable' = (~dis /\ m # "source")

\* The owner re-renders the component with another `disabled`.
SetDisabled(b) ==
  /\ UNCHANGED <<slash, bubble>>
  /\ mounted
  /\ b # disabled
  /\ disabled' = b
  /\ EditableEffect(b, mode)
  /\ noSetContent
  /\ lastOp' = "disabled"
  /\ pre' = NoPre
  /\ settled' = NoSettle
  /\ burstEnd' = NoBurstEnd
  /\ roundTrip' = "-"
  /\ hookCall' = <<>>
  /\ ModeEffectIdle
  /\ UNCHANGED <<value, mode, format, hasSwitchToSource, hasSwitchToEditor>>
  /\ UNCHANGED <<showLinkInput, sourceValue, sourceDebounceRef, timers,
                 mounted, inflight>>
  /\ UNCHANGED hist

\* ---------------------------------------------------- mode transition effect
\* A hook call starts: the promise is pending until it settles.
StartHook(task) ==
  /\ BagCardinality(inflight) < MaxInflight
  /\ inflight' = inflight (+) SetToBag({task})

\* enterSourceMode() that forgets setSourceValue when no hook is configured.
EnterSourceModeKeepBuffer ==
  LET currentValue == Serialize(content, format) IN
  /\ noSetContent
  /\ lastOp' = "enterSource"
  /\ pre' = Pre
  /\ settled' = NoSettle
  /\ burstEnd' = NoBurstEnd
  /\ roundTrip' = "-"
  /\ enterSnapshot' = currentValue
  /\ UNCHANGED <<sourceDebounceRef, timers, lastKey, burstKeys>>
  /\ IF hasSwitchToSource
       THEN /\ StartHook(EnterTask)
            /\ hookCall' = <<[hook |-> "onSwitchToSource", arg |-> currentValue,
                              fmt |-> format]>>
            /\ UNCHANGED <<showLinkInput, sourceValue>>
       ELSE /\ showLinkInput' = FALSE
            /\ hookCall' = <<>>
            /\ UNCHANGED <<sourceValue, inflight>>

\* enterSourceMode() that reads the `value` prop instead of the engine.
EnterSourceModeFromProp ==
  LET currentValue == Serialize(content, format) IN
  /\ noSetContent
  /\ lastOp' = "enterSource"
  /\ pre' = Pre
  /\ settled' = NoSettle
  /\ burstEnd' = NoBurstEnd
  /\ roundTrip' = "-"
  /\ enterSnapshot' = currentValue
  /\ UNCHANGED <<sourceDebounceRef, timers, lastKey, burstKeys>>
  /\ IF hasSwitchToSource
       THEN /\ StartHook(EnterTask)
            /\ hookCall' = <<[hook |-> "onSwitchToSource", arg |-> value,
                              fmt |-> format]>>
            /\ UNCHANGED <<showLinkInput, sourceValue>>
       ELSE /\ showLinkInput' = FALSE
            /\ sourceValue' = value
            /\ hookCall' = <<>>
            /\ UNCHANGED inflight

\* enterSourceMode(), up to its first await.
EnterSourceMode ==
  LET currentValue == Serialize(content, format) IN
  /\ noSetContent
  /\ lastOp' = "enterSource"
  /\ pre' = Pre
  /\ settled' = NoSettle
  /\ burstEnd' = NoBurstEnd
  /\ roundTrip' = "-"
  /\ enterSnapshot' = currentValue
  /\ UNCHANGED <<sourceDebounceRef, timers, lastKey, burstKeys>>
  /\ IF hasSwitchToSource
       THEN /\ StartHook(EnterTask)
            /\ hookCall' = <<[hook |-> "onSwitchToSource", arg |-> currentValue,
                              fmt |-> format]>>
            /\ UNCHANGED <<showLinkInput, sourceValue>>
       ELSE /\ showLinkInput' = FALSE
            /\ sourceValue' = currentValue
            /\ hookCall' = <<>>
            /\ UNCHANGED inflight

\* The tail of exitSourceMode() with a silent content-set.
FinishExitSilent(editorModeValue, captured) ==
  /\ sourceValue' = IF editorModeValue # captured THEN editorModeValue
                                                   ELSE sourceValue
  /\ setContent(editorModeValue, FALSE)

\* The tail of exitSourceMode(): editorModeValue is the hook's result or the
\* buffer value; captured is the sourceValue the closure was created with.
FinishExit(editorModeValue, captured) ==
  /\ sourceValue' = IF editorModeValue # captured THEN editorModeValue
                                                   ELSE sourceValue
  /\ setContent(editorModeValue, TRUE)

\* exitSourceMode() without the timer cancellation.
CancelDebounceSkipped ==
  /\ UNCHANGED <<timers, sourceDebounceRef, lastKey, burstKeys>>
  /\ burstEnd' = NoBurstEnd

\* The timer cancellation at the head of exitSourceMode().
CancelDebounce ==
  /\ timers' = IF sourceDebounceRef # 0 THEN clearTimeout(sourceDebounceRef)
                                        ELSE timers
  /\ sourceDebounceRef' = 0
  /\ burstEnd' = IF timers' # timers THEN BurstEnded("cancelled") ELSE NoBurstEnd
  /\ lastKey' = ""
  /\ burstKeys' = 0

\* exitSourceMode(), up to its first await.
ExitSourceMode ==
  /\ CancelDebounce
  /\ lastOp' = "exitSource"
  /\ pre' = Pre
  /\ settled' = NoSettle
  /\ roundTrip' = enterSnapshot
  /\ enterSnapshot' = "-"
  /\ UNCHANGED showLinkInput
  /\ IF hasSwitchToEditor
       THEN /\ StartHook(ExitTask(sourceValue))
            /\ hookCall' = <<[hook |-> "onSwitchToEditor", arg |-> sourceValue,
                              fmt |-> format]>>
            /\ noSetContent
            /\ UNCHANGED sourceValue
       ELSE /\ FinishExit(sourceValue, sourceValue)
            /\ hookCall' = <<>>
            /\ UNCHANGED inflight

\* The mode effect finds wasSource = nowSource.
NoTransition ==
  /\ noSetContent
  /\ lastOp' = "sameMode"
  /\ pre' = Pre
  /\ settled' = NoSettle
  /\ burstEnd' = NoBurstEnd
  /\ roundTrip' = "-"
  /\ hookCall' = <<>>
  /\ UNCHANGED <<showLinkInput, sourceValue, sourceDebounceRef, timers, inflight>>
  /\ UNCHANGED hist

\* The mode effect without prevModeRef.current = mode.
ModeEffectStaleRef(m) ==
  /\ prevModeRef' = prevModeRef
  /\ \/ Transition(prevModeRef, m) = "enter" /\ EnterSourceMode
     \/ Transition(prevModeRef, m) = "exit" /\ ExitSourceMode
     \/ Transition(prevModeRef, m) = "none" /\ NoTransition

\* The body of the mode effect for the rendered mode m.
ModeEffect(m) ==
  /\ prevModeRef' = m
  /\ \/ Transition(prevModeRef, m) = "enter" /\ EnterSourceMode
     \/ Transition(prevModeRef, m) = "exit" /\ ExitSourceMode
     \/ Transition(prevModeRef, m) = "none" /\ NoTransition

\* The owner re-renders the component with mode m (m may be the current
\* mode: the effect re-runs whenever one of its dependencies, such as the
\* identity of a hook, changes).
SetMode(m) ==
  /\ UNCHANGED <<slash, bubble>>
  /\ mounted
  /\ mode' = m
  /\ EditableEffect(disabled, m)
  /\ ModeEffect(m)
  /\ UNCHANGED <<value, disabled, format, hasSwitchToSource, hasSwitchToEditor>>
  /\ UNCHANGED mounted

\* ------------------------------------------------------- source textarea
\* onSourceChange without clearTimeout of the outstanding timer.
onSourceChangeNoClear(nextValue) ==
  LET id == NewTimerId(timers) IN
  /\ sourceValue' = nextValue
  /\ FreeTimerIds(timers) # {}
  /\ timers' = timers \cup {[id |-> id, nextValue |-> nextValue]}
  /\ sourceDebounceRef' = id

\* onSourceChange that schedules only when no timer is outstanding and
\* otherwise just clears the outstanding one.
onSourceChangeLeading(nextValue) ==
  LET id == NewTimerId(timers) IN
  /\ sourceValue' = nextValue
  /\ FreeTimerIds(timers) # {}
  /\ IF sourceDebounceRef # 0
       THEN /\ timers' = clearTimeout(sourceDebounceRef)
            /\ sourceDebounceRef' = 0
       ELSE /\ timers' = timers \cup {[id |-> id, nextValue |-> nextValue]}
            /\ sourceDebounceRef' = id

\* onSourceChange(nextValue): the textarea is rendered only in source mode
\* and takes input only when it is not disabled.
onSourceChange(nextValue) ==
  LET kept == IF sourceDebounceRef # 0 THEN clearTimeout(sourceDebounceRef)
                                       ELSE timers
      id == NewTimerId(kept)
  IN
  /\ sourceValue' = nextValue
  /\ FreeTimerIds(kept) # {}
  /\ timers' = kept \cup {[id |-> id, nextValue |-> nextValue]}
  /\ sourceDebounceRef' = id

Keystroke(nextValue) ==
  /\ UNCHANGED <<slash, bubble>>
  /\ mounted
  /\ mode = "source"
  /\ ~disabled
  /\ nextValue # sourceValue
  /\ onSourceChange(nextValue)
  /\ noSetContent
  /\ lastOp' = "keystroke"
  /\ pre' = NoPre
  /\ settled' = NoSettle
  /\ burstEnd' = NoBurstEnd
  /\ roundTrip' = "-"
  /\ hookCall' = <<>>
  /\ ModeEffectIdle
  /\ lastKey' = nextValue
  /\ burstKeys' = IF burstKeys < BurstCap THEN burstKeys + 1 ELSE BurstCap
  /\ enterSnapshot' = "-"
  /\ UNCHANGED props
  /\ UNCHANGED <<showLinkInput, editable, mounted, inflight>>

\* The timer callback with a silent content-set.
TimerFireSilent(t) ==
  /\ UNCHANGED <<slash, bubble>>
  /\ t \in timers
  /\ timers' = timers \ {t}
  /\ setContent(t.nextValue, FALSE)
  /\ sourceDebounceRef' = 0
  /\ lastOp' = "timer"
  /\ pre' = NoPre
  /\ settled' = NoSettle
  /\ roundTrip' = "-"
  /\ hookCall' = <<>>
  /\ burstEnd' = BurstEnded("pushed")
  /\ lastKey' = ""
  /\ burstKeys' = 0
  /\ UNCHANGED enterSnapshot
  /\ UNCHANGED props
  /\ UNCHANGED <<showLinkInput, sourceValue, prevModeRef, editable, mounted,
                 inflight>>

\* The setTimeout callback of onSourceChange runs.
TimerFire(t) ==
  /\ UNCHANGED <<slash, bubble>>
  /\ t \in timers
  /\ timers' = timers \ {t}
  /\ setContent(t.nextValue, TRUE)
  /\ sourceDebounceRef' = 0
  /\ lastOp' = "timer"
  /\ pre' = NoPre
  /\ settled' = NoSettle
  /\ roundTrip' = "-"
  /\ hookCall' = <<>>
  /\ burstEnd' = BurstEnded("pushed")
  /\ lastKey' = ""
  /\ burstKeys' = 0
  /\ UNCHANGED enterSnapshot
  /\ UNCHANGED props
  /\ UNCHANGED <<showLinkInput, sourceValue, prevModeRef, editable, mounted,
                 inflight>>

\* --------------------------------------------------------- wysiwyg surface
\* A local edit in the engine (typing, toolbar or slash command): the
\* engine accepts it only while editable, emits "update", and onUpdate
\* calls onChange with the serialized document.
WysiwygEdit(d) ==
  /\ UNCHANGED <<slash, bubble>>
  /\ mounted
  /\ editable
  /\ d # content
  /\ content' = d
  /\ lastSet' = NoSet
  /\ onChangeCalls' = <<Serialize(d, format)>>
  /\ lastOp' = "edit"
  /\ pre' = NoPre
  /\ settled' = NoSettle
  /\ burstEnd' = NoBurstEnd
  /\ roundTrip' = "-"
  /\ hookCall' = <<>>
  /\ ModeEffectIdle
  /\ UNCHANGED props
  /\ UNCHANGED <<showLinkInput, sourceValue, sourceDebounceRef, timers,
                 editable, mounted, inflight>>
  /\ UNCHANGED hist

\* openLinkInput(): the Link button of the bubble menu, shown outside source
\* mode and enabled unless disabled.
openLinkInput ==
  /\ UNCHANGED <<slash, bubble>>
  /\ mounted
  /\ mode # "source"
  /\ ~disabled
  /\ showLinkInput' = ~showLinkInput
  /\ noSetContent
  /\ lastOp' = "link"
  /\ pre' = NoPre
  /\ settled' = NoSettle
  /\ burstEnd' = NoBurstEnd
  /\ roundTrip' = "-"
  /\ hookCall' = <<>>
  /\ ModeEffectIdle
  /\ UNCHANGED props
  /\ UNCHANGED <<sourceValue, sourceDebounceRef, timers, editable, mounted,
                 inflight>>
  /\ UNCHANGED hist

\* onPointerDown outside the bubble menu while the link input is shown.
onPointerDown ==
  /\ UNCHANGED <<slash, bubble>>
  /\ mounted
  /\ showLinkInput
  /\ showLinkInput' = FALSE
  /\ noSetContent
  /\ lastOp' = "pointerdown"
  /\ pre' = NoPre
  /\ settled' = NoSettle
  /\ burstEnd' = NoBurstEnd
  /\ roundTrip' = "-"
  /\ hookCall' = <<>>
  /\ ModeEffectIdle
  /\ UNCHANGED props
  /\ UNCHANGED <<sourceValue, sourceDebounceRef, timers, editable, mounted,
                 inflight>>
  /\ UNCHANGED hist

\* ------------------------------------------------------- hook settlement
Settle(task) ==
  /\ BagIn(task, inflight)
  /\ inflight' = inflight (-) SetToBag({task})

\* A completion of enterSourceMode() that drops the result once the mode
\* is no longer source.
EnterResolveIfStillSource(task, r) ==
  /\ UNCHANGED <<slash, bubble>>
  /\ mounted
  /\ task.kind = "enter"
  /\ Settle(task)
  /\ showLinkInput' = IF mode = "source" THEN FALSE ELSE showLinkInput
  /\ sourceValue' = IF mode = "source" THEN r ELSE sourceValue
  /\ noSetContent
  /\ lastOp' = "enterResolve"
  /\ pre' = PreContent
  /\ settled' = Settled(task, r)
  /\ burstEnd' = NoBurstEnd
  /\ roundTrip' = "-"
  /\ hookCall' = <<>>
  /\ ModeEffectIdle
  /\ UNCHANGED props
  /\ UNCHANGED <<sourceDebounceRef, timers, editable, mounted>>
  /\ UNCHANGED hist

\* onSwitchToSource resolves with r: the rest of enterSourceMode().
EnterResolve(task, r) ==
  /\ UNCHANGED <<slash, bubble>>
  /\ mounted
  /\ task.kind = "enter"
  /\ Settle(task)
  /\ showLinkInput' = FALSE
  /\ sourceValue' = r
  /\ noSetContent
  /\ lastOp' = "enterResolve"
  /\ pre' = PreContent
  /\ settled' = Settled(task, r)
  /\ burstEnd' = NoBurstEnd
  /\ roundTrip' = "-"
  /\ hookCall' = <<>>
  /\ ModeEffectIdle
  /\ UNCHANGED props
  /\ UNCHANGED <<sourceDebounceRef, timers, editable, mounted>>
  /\ UNCHANGED hist

\* onSwitchToEditor resolves with r: the rest of exitSourceMode().
ExitResolve(task, r) ==
  /\ UNCHANGED <<slash, bubble>>
  /\ mounted
  /\ task.kind = "exit"
  /\ Settle(task)
  /\ FinishExit(r, task.arg)
  /\ lastOp' = "exitResolve"
  /\ pre' = PreSource
  /\ settled' = Settled(task, r)
  /\ burstEnd' = NoBurstEnd
  /\ roundTrip' = "-"
  /\ hookCall' = <<>>
  /\ ModeEffectIdle
  /\ UNCHANGED props
  /\ UNCHANGED <<showLinkInput, sourceDebounceRef, timers, editable, mounted>>
  /\ UNCHANGED hist

\* A rejection handled by falling back to the untransformed value: the
\* tail of the transition runs with the value the hook was called with.
HookRejectFallback(task) ==
  /\ UNCHANGED <<slash, bubble>>
  /\ mounted
  /\ Settle(task)
  /\ IF task.kind = "exit"
       THEN FinishExit(task.arg, task.arg) /\ UNCHANGED showLinkInput
       ELSE /\ noSetContent
            /\ showLinkInput' = FALSE
            /\ sourceValue' = Serialize(content, format)
  /\ lastOp' = "reject"
  /\ pre' = PreReject
  /\ settled' = [NoSettle EXCEPT !.kind = task.kind]
  /\ burstEnd' = NoBurstEnd
  /\ roundTrip' = "-"
  /\ hookCall' = <<>>
  /\ UNCHANGED props
  /\ UNCHANGED <<prevModeRef, sourceDebounceRef, timers, editable, mounted>>
  /\ UNCHANGED hist

\* A hook's promise rejects: the async function stops at the await.
HookReject(task) ==
  /\ UNCHANGED <<slash, bubble>>
  /\ mounted
  /\ Settle(task)
  /\ noSetContent
  /\ lastOp' = "reject"
  /\ pre' = PreReject
  /\ settled' = [NoSettle EXCEPT !.kind = task.kind]
  /\ burstEnd' = NoBurstEnd
  /\ roundTrip' = "-"
  /\ hookCall' = <<>>
  /\ UNCHANGED props
  /\ UNCHANGED <<showLinkInput, sourceValue, prevModeRef, sourceDebounceRef,
                 timers, editable, mounted>>
  /\ UNCHANGED hist

\* A hook settles after the component was torn down: the state updates go
\* to an unmounted component and the engine has been destroyed.
LateSettle(task) ==
  /\ UNCHANGED <<slash, bubble>>
  /\ ~mounted
  /\ Settle(task)
  /\ noSetContent
  /\ lastOp' = "lateSettle"
  /\ pre' = NoPre
  /\ settled' = NoSettle
  /\ burstEnd' = NoBurstEnd
  /\ roundTrip' = "-"
  /\ hookCall' = <<>>
  /\ UNCHANGED props
  /\ UNCHANGED <<showLinkInput, sourceValue, prevModeRef, sourceDebounceRef,
                 timers, editable, mounted>>
  /\ UNCHANGED hist

\* ---------------------------------------------------------------- teardown
\* A teardown that leaves the timer running.
UnmountCleanupNone == UNCHANGED <<timers, sourceDebounceRef>>

\* The cleanup of the mount effect: clearTimeout(sourceDebounceRef.current).
UnmountCleanup ==
  /\ timers' = IF sourceDebounceRef # 0 THEN clearTimeout(sourceDebounceRef)
                                        ELSE timers
  /\ UNCHANGED sourceDebounceRef

Unmount ==
  /\ UNCHANGED <<slash, bubble>>
  /\ mounted
  /\ mounted' = FALSE
  /\ UnmountCleanup
  /\ burstEnd' = IF timers' # timers THEN BurstEnded("cancelled") ELSE NoBurstEnd
  /\ lastKey' = ""
  /\ burstKeys' = 0
  /\ noSetContent
  /\ lastOp' = "unmount"
  /\ pre' = NoPre
  /\ settled' = NoSettle
  /\ roundTrip' = "-"
  /\ hookCall' = <<>>
  /\ UNCHANGED props
  /\ UNCHANGED <<showLinkInput, sourceValue, prevModeRef, editable, inflight>>
  /\ UNCHANGED enterSnapshot

\* ------------------------------------------------------------------- Next
Next ==
  \/ \E v \in Strings : SetValue(v)
  \/ \E b \in BOOLEAN : SetDisabled(b)
  \/ \E m \in Modes : SetMode(m)
  \/ \E v \in Strings : Keystroke(v)
  \/ \E t \in timers : TimerFire(t)
  \/ \E d \in Docs : WysiwygEdit(d)
  \/ openLinkInput
  \/ onPointerDown
  \/ \E task \in BagToSet(inflight), r \in Strings : EnterResolve(task, r)
  \/ \E task \in BagToSet(inflight), r \in Strings : ExitResolve(task, r)
  \/ \E task \in BagToSet(inflight) : HookReject(task)
  \/ \E task \in BagToSet(inflight) : LateSettle(task)
  \/ Unmount

Spec == Init /\ [][Next]_vars

\* ------------------------------------------------------------ type invariant
TypeOK ==
  /\ value \in Strings /\ mode \in Modes /\ disabled \in BOOLEAN
  /\ format \in Formats
  /\ showLinkInput \in BOOLEAN /\ sourceValue \in Strings
  /\ prevModeRef \in Modes
  /\ sourceDebounceRef \in 0..MaxTimerIds
  /\ timers \subseteq [id : TimerIds, nextValue : Strings]
  /\ content \in Docs /\ editable \in BOOLEAN /\ mounted \in BOOLEAN
  /\ BagCardinality(inflight) <= MaxInflight
  /\ Len(onChangeCalls) <= 1 /\ Len(hookCall) <= 1
  /\ burstKeys \in 0..BurstCap

\* Between steps the mode effect has always caught up with the mode prop.
ModeRefInSync == prevModeRef = mode

\* ============================================= slash-command suggestion
\* Titles and queries are sequences of characters.
MaxQueryLen == 3     \* characters typed after the trigger character

\* The characters the user types into a query.
QueryChars == {"t", "T", "a", "b"}

\* String.prototype.toLowerCase on the characters that occur.
toLowerCaseChar(c) ==
  CASE c = "T" -> "t" [] c = "H" -> "h" [] c = "B" -> "b" [] c = "N" -> "n"
    [] c = "I" -> "i" [] c = "Q" -> "q" [] c = "C" -> "c" [] c = "A" -> "a"
    [] c = "Z" -> "z" [] OTHER -> c
toLowerCase(str) == [i \in 1..Len(str) |-> toLowerCaseChar(str[i])]

\* String.prototype.includes
includes(str, q) ==
  /\ Len(q) <= Len(str)
  /\ \E i \in 1..(Len(str) - Len(q) + 1) : SubSeq(str, i, i + Len(q) - 1) = q

\* Array.prototype.slice(0, n)
slice(seq, n) == IF Len(seq) <= n THEN seq ELSE SubSeq(seq, 1, n)

\* The static command list; a command is the chain step that follows
\* deleteRange(range).
allItems == <<
  [title |-> <<"T", "e", "x", "t">>,
   command |-> [step |-> "setParagraph", level |-> 0]],
  [title |-> <<"H", "e", "a", "d", "i", "n", "g", " ", "1">>,
   command |-> [step |-> "setHeading", level |-> 1]],
  [title |-> <<"H", "e", "a", "d", "i", "n", "g", " ", "2">>,
   command |-> [step |-> "setHeading", level |-> 2]],
  [title |-> <<"H", "e", "a", "d", "i", "n", "g", " ", "3">>,
   command |-> [step |-> "setHeading", level |-> 3]],
  [title |-> <<"B", "u", "l", "l", "e", "t", "e", "d", " ", "l", "i", "s", "t">>,
   command |-> [step |-> "toggleBulletList", level |-> 0]],
  [title |-> <<"N", "u", "m", "b", "e", "r", "e", "d", " ", "l", "i", "s", "t">>,
   command |-> [step |-> "toggleOrderedList", level |-> 0]],
  [title |-> <<"I", "m", "a", "g", "e">>,
   command |-> [step |-> "setImage", level |-> 0]],
  [title |-> <<"T", "a", "b", "l", "e">>,
   command |-> [step |-> "insertTable", level |-> 0]],
  [title |-> <<"Q", "u", "o", "t", "e">>,
   command |-> [step |-> "toggleBlockquote", level |-> 0]],
  [title |-> <<"C", "o", "d", "e", " ", "b", "l", "o", "c", "k">>,
   command |-> [step |-> "toggleCodeBlock", level |-> 0]]
>>

\* items({ query }) that compares the title with the query as typed.
ItemsCaseSensitive(q) ==
  LET hit(item) == includes(item.title, q)
  IN slice(SelectSeq(allItems, hit), 10)

\* items({ query }): filter by lower-cased inclusion, then slice(0, 10).
Items(q) ==
  LET hit(item) == includes(toLowerCase(item.title), toLowerCase(q))
  IN slice(SelectSeq(allItems, hit), 10)

\* The blocks the cursor can be in.
Blocks == {b \in [type : {"paragraph", "heading", "codeBlock"}, level : 0..3,
                  list : {"none", "bulletList", "orderedList"}, quote : BOOLEAN] :
             (b.type = "heading") <=> (b.level > 0)}

\* window.prompt("Image URL"): "" stands for a cancelled or empty prompt.
PromptResults == {"", "u"}

\* The session with a wysiwyg editor that takes input, in any block.
InitSlash ==
  /\ InitEditor
  /\ value = "" /\ mode = "wysiwyg" /\ ~disabled /\ format = "html"
  /\ ~hasSwitchToSource /\ ~hasSwitchToEditor
  /\ sug \in {InitSug(b) : b \in Blocks}
  /\ menu = Idle

\* The chain step of a command applied to the block at the cursor.
ApplyBlock(cmd, b) ==
  CASE cmd.step = "setParagraph" -> [b EXCEPT !.type = "paragraph", !.level = 0]
    [] cmd.step = "setHeading" -> [b EXCEPT !.type = "heading", !.level = cmd.level]
    [] cmd.step = "toggleBulletList" ->
         [b EXCEPT !.list = IF b.list = "bulletList" THEN "none" ELSE "bulletList"]
    [] cmd.step = "toggleOrderedList" ->
         [b EXCEPT !.list = IF b.list = "orderedList" THEN "none" ELSE "orderedList"]
    [] cmd.step = "toggleBlockquote" -> [b EXCEPT !.quote = ~b.quote]
    [] cmd.step = "toggleCodeBlock" ->
         IF b.type = "codeBlock" THEN [b EXCEPT !.type = "paragraph", !.level = 0]
                                 ELSE [b EXCEPT !.type = "codeBlock", !.level = 0]
    [] OTHER -> b

ApplyInsert(cmd) ==
  CASE cmd.step = "setImage" -> "image"
    [] cmd.step = "insertTable" -> "table"
    [] OTHER -> "none"

\* The handlers below give the fields they assign; a step of the session
\* applies them to sug.

\* render().onExit: popup.destroy(), component.destroy(); the plugin's range
\* is gone.
onExit ==
  [active |-> FALSE, query |-> <<>>, items |-> <<>>, selectedIndex |-> 0,
   popup |-> "null"]

\* render().onStart(props): the CommandsList is created with props.items
\* and useState(0); the popup is created only with a clientRect.
onStart(hasClientRect) ==
  [active |-> TRUE, query |-> <<>>, items |-> Items(<<>>), selectedIndex |-> 0,
   popup |-> IF hasClientRect THEN "shown" ELSE "null"]

\* render().onUpdate(props) that leaves selectedIndex alone.
onUpdateKeepIndex(q) ==
  [query |-> q, items |-> Items(q)]

\* render().onUpdate(props): updateProps passes the new items array and the
\* [items] effect of CommandsList sets selectedIndex to 0.
onUpdate(q) ==
  [query |-> q, items |-> Items(q), selectedIndex |-> 0]

\* No command ran and no transaction was dispatched.
NoCommand ==
  [ran |-> "none", tx |-> <<>>, inserted |-> "none", prompted |-> "-"]

\* item.command({ editor, range }) that applies the mutation without
\* deleteRange(range).
commandKeepRange(item, src) ==
  IF item.command.step = "setImage" /\ src = ""
    THEN [ran |-> item.title, tx |-> <<>>, inserted |-> "none",
          prompted |-> src]
    ELSE [ran |-> item.title,
          prompted |-> IF item.command.step = "setImage" THEN src ELSE "-",
          tx |-> << <<"focus", item.command.step>> >>,
          block |-> ApplyBlock(item.command, block),
          inserted |-> ApplyInsert(item.command)]

\* props.command(item) -> Suggestion command -> item.command({ editor,
\* range }): one chain, run once; the Image command returns before the chain
\* when the prompt gives no URL.  With the range deleted the plugin finds
\* no trigger any more and calls onExit.
command(item, src) ==
  IF item.command.step = "setImage" /\ src = ""
    THEN [ran |-> item.title, tx |-> <<>>, inserted |-> "none",
          prompted |-> src]
    ELSE [ran |-> item.title,
          prompted |-> IF item.command.step = "setImage" THEN src ELSE "-",
          tx |-> << <<"focus", "deleteRange", item.command.step>> >>,
          rangeText |-> <<>>,
          block |-> ApplyBlock(item.command, block),
          inserted |-> ApplyInsert(item.command)] @@ onExit

\* selectItem(index): index is 0-based.
selectItem(index, src) ==
  IF index + 1 \in 1..Len(items)
    THEN command(items[index + 1], src)
    ELSE NoCommand

\* One step of the session: the handlers' assignments, the observation of
\* the step, everything else as it was.
Step(op, key, preventDefault, assigned) ==
  sug' = assigned
         @@ [slashOp |-> op, keyResult |-> key, prevented |-> preventDefault,
             blockBefore |-> block, before |-> Session]
         @@ NoCommand
         @@ sug

\* "/" is typed where the plugin accepts a trigger.
TypeTrigger(hasClientRect) ==
  /\ ~sugActive
  /\ Step("trigger", "-", FALSE,
          [rangeText |-> <<"/">>] @@ onStart(hasClientRect))
  /\ UNCHANGED <<editor, bubble>>

\* A character key: no branch of the key handlers takes it, the engine
\* inserts the character and the plugin reports the longer query.
KeyChar(c) ==
  /\ sugActive
  /\ Len(query) < MaxQueryLen
  /\ Step("char", "unhandled", FALSE,
          [rangeText |-> Append(rangeText, c)] @@ onUpdate(Append(query, c)))
  /\ UNCHANGED <<editor, bubble>>

\* Backspace: the engine deletes the last character of the range; deleting
\* the trigger character itself ends the session.
KeyBackspace ==
  /\ sugActive
  /\ Step("backspace", "unhandled", FALSE,
          IF query = <<>>
            THEN [rangeText |-> <<>>] @@ onExit
            ELSE [rangeText |-> SubSeq(rangeText, 1, Len(rangeText) - 1)]
                 @@ onUpdate(SubSeq(query, 1, Len(query) - 1)))
  /\ UNCHANGED <<editor, bubble>>

\* ArrowUp without the + items.length term, clamped at 0.
ArrowUpIndexNoWrap(current, n) == IF current = 0 THEN 0 ELSE current - 1

\* (current + items.length - 1) % items.length
ArrowUpIndex(current, n) == (current + n - 1) % n

\* (current + 1) % items.length
ArrowDownIndex(current, n) == (current + 1) % n

\* ArrowUp / ArrowDown: handled by CommandsList when it has items; with no
\* items the engine moves the cursor, which may leave the range.
KeyArrow(key, leaves) ==
  /\ sugActive
  /\ key \in {"ArrowUp", "ArrowDown"}
  /\ IF items # <<>>
       THEN /\ ~leaves
            /\ Step(key, "handled", TRUE,
                    [selectedIndex |->
                       IF key = "ArrowUp"
                         THEN ArrowUpIndex(selectedIndex, Len(items))
                         ELSE ArrowDownIndex(selectedIndex, Len(items))])
       ELSE Step(key, "unhandled", FALSE, IF leaves THEN onExit ELSE Session)
  /\ UNCHANGED <<editor, bubble>>

\* Enter: CommandsList returns false before looking at the key when it has
\* no items, and the engine then splits the block, which ends the session;
\* otherwise it confirms the selected item.
KeyEnter(src) ==
  /\ sugActive
  /\ IF items = <<>>
       THEN Step("Enter", "unhandled", FALSE, onExit)
       ELSE Step("Enter", "handled", TRUE, selectItem(selectedIndex, src))
  /\ UNCHANGED <<editor, bubble>>

\* Escape: render().onKeyDown hides the popup and returns true when a popup
\* exists, and the plugin then leaves its range active; otherwise the key
\* goes to CommandsList, which has no branch for it and returns false, and
\* it depends on the release of the suggestion plugin whether the plugin
\* then ends the session itself (pluginExits) or leaves it active.
KeyEscape(pluginExits) ==
  /\ sugActive
  /\ IF popup # "null"
       THEN /\ ~pluginExits
            /\ Step("Escape", "handled", FALSE, [popup |-> "hidden"])
       ELSE Step("Escape", "unhandled", FALSE,
                 IF pluginExits THEN onExit ELSE Session)
  /\ UNCHANGED <<editor, bubble>>

\* onClick of the button of items[index].
ClickItem(index, src) ==
  /\ sugActive
  /\ popup = "shown"
  /\ index + 1 \in 1..Len(items)
  /\ Step("click", "-", FALSE, selectItem(index, src))
  /\ UNCHANGED <<editor, bubble>>

\* The cursor leaves the trigger range by other means: the plugin ends the
\* session.
CursorLeaves ==
  /\ sugActive
  /\ Step("leave", "-", FALSE, onExit)
  /\ UNCHANGED <<editor, bubble>>

NextSlash ==
  \/ \E r \in BOOLEAN : TypeTrigger(r)
  \/ \E c \in QueryChars : KeyChar(c)
  \/ KeyBackspace
  \/ \E key \in {"ArrowUp", "ArrowDown"}, leaves \in BOOLEAN : KeyArrow(key, leaves)
  \/ \E src \in PromptResults : KeyEnter(src)
  \/ \E pluginExits \in BOOLEAN : KeyEscape(pluginExits)
  \/ \E index \in 0..9, src \in PromptResults : ClickItem(index, src)
  \/ CursorLeaves

SpecSlash == InitSlash /\ [][NextSlash]_vars

\* ================================================================== claims

\* The labels of a step that ran the mode effect for a rendered mode.
ModeOps == {"enterSource", "exitSource", "sameMode"}

\* The last step rendered the mode the effect had seen before.
SameModeSeen == lastOp \in ModeOps /\ pre.mode = mode

\* The last step changed the mode from wysiwyg to source.
EnterSeen == lastOp \in ModeOps /\ pre.mode = "wysiwyg" /\ mode = "source"

\* The last step changed the mode from source to wysiwyg.
ExitSeen == lastOp \in ModeOps /\ pre.mode = "source" /\ mode = "wysiwyg"

\* C1: an external value update never calls onChange: when the new value
\* equals the engine's serialized content no content-set is made and the
\* document is untouched, otherwise the value (or the empty-content
\* placeholder) is pushed with a silent content-set.
C1_NoEcho ==
  lastOp = "value" =>
    /\ onChangeCalls = <<>>
    /\ IF value = Serialize(pre.content, format)
         THEN lastSet = NoSet /\ content = pre.content
         ELSE /\ lastSet = SilentSet(ContentOrPlaceholder(value, format))
              /\ content = Parse(ContentOrPlaceholder(value, format), format)

\* A differing value was pushed silently while a source session was going on.
C1_Witness ==
  /\ lastOp = "value"
  /\ lastSet.kind = "silent"
  /\ onChangeCalls = <<>>
  /\ value # ""
  /\ mode = "source"

\* C2: a run of the mode effect with the mode it saw before invokes no
\* hook, makes no content-set or onChange call and leaves the engine's
\* document, the source buffer and the debounce timer as they were.
C2_IdempotentModeNoOp ==
  SameModeSeen =>
    /\ hookCall = <<>>
    /\ lastSet = NoSet
    /\ onChangeCalls = <<>>
    /\ burstEnd = NoBurstEnd
    /\ content = pre.content
    /\ sourceValue = pre.sourceValue

\* The effect re-ran in source mode, with a hook configured and a buffer
\* that an enter transition would have replaced.
C2_Witness ==
  /\ SameModeSeen
  /\ lastOp = "sameMode"
  /\ mode = "source"
  /\ hasSwitchToSource
  /\ sourceValue # Serialize(content, format)

\* C3: at most one debounce timer is outstanding; it is the one the ref
\* holds and it carries the last keystroke's value; a burst of keystrokes
\* ends in one push at most, the push carries the last keystroke's value,
\* and a burst in progress is exactly a burst whose timer is outstanding:
\* it ends with that timer's single push or with its cancellation.
C3_AtMostOneTimer ==
  /\ Cardinality(timers) <= 1
  /\ \A t \in timers : t.id = sourceDebounceRef /\ t.nextValue = lastKey
  /\ (burstKeys >= 1) <=> (timers # {})
  /\ lastOp = "timer" =>
       /\ burstEnd.how = "pushed"
       /\ burstEnd.keys >= 1
       /\ lastSet = NormalSet(burstEnd.key)

\* A burst of two or more keystrokes ended in its single push.
C3_Witness ==
  /\ lastOp = "timer"
  /\ burstEnd.how = "pushed"
  /\ burstEnd.keys >= 2
  /\ lastSet = NormalSet(burstEnd.key)
  /\ timers = {}

\* C4: the exit transition cancels the debounce timer before the exit hook
\* is awaited, so no timer is outstanding outside source mode and a timer
\* callback only ever runs in source mode.
C4_DebounceCancelledOnExit ==
  /\ mode # "source" => timers = {}
  /\ lastOp = "exitSource" => (timers = {} /\ sourceDebounceRef = 0)
  /\ lastOp = "timer" => mode = "source"

\* The exit began with a timer outstanding and the exit hook is pending.
C4_Witness ==
  /\ lastOp = "exitSource"
  /\ burstEnd.how = "cancelled"
  /\ hookCall # <<>>
  /\ timers = {}

C6_ExitSource ==
  /\ (ExitSeen /\ hasSwitchToEditor) =>
       /\ hookCall = <<[hook |-> "onSwitchToEditor", arg |-> pre.sourceValue,
                        fmt |-> format]>>
       /\ BagIn(ExitTask(pre.sourceValue), inflight)
       /\ lastSet = NoSet
       /\ onChangeCalls = <<>>
       /\ content = pre.content
       /\ sourceValue = pre.sourceValue
  /\ (ExitSeen /\ ~hasSwitchToEditor) =>
       /\ hookCall = <<>>
       /\ lastSet = NormalSet(pre.sourceValue)
       /\ content = Parse(pre.sourceValue, format)
       /\ onChangeCalls = <<Serialize(content, format)>>
       /\ sourceValue = pre.sourceValue
  /\ lastOp = "exitResolve" =>
       /\ settled.kind = "exit"
       /\ lastSet = NormalSet(settled.result)
       /\ content = Parse(settled.result, format)
       /\ onChangeCalls = <<Serialize(content, format)>>
       /\ sourceValue = IF settled.result # settled.arg THEN settled.result
                                                         ELSE pre.sourceValue

\* The exit hook resolved with a result that replaced the typed buffer.
C6_Witness ==
  /\ lastOp = "exitResolve"
  /\ settled.result # settled.arg
  /\ settled.arg = pre.sourceValue
  /\ sourceValue = settled.result
  /\ lastSet = NormalSet(settled.result)
  /\ onChangeCalls # <<>>

\* C7: an enter transition serializes the engine's content; with
\* onSwitchToSource configured the hook is called with that string and the
\* format, and when it resolves the buffer becomes its result and the link
\* input is closed; without the hook the buffer becomes the serialized
\* content and the link input is closed at once.
C7_EnterSource ==
  /\ (EnterSeen /\ hasSwitchToSource) =>
       /\ hookCall = <<[hook |-> "onSwitchToSource",
                        arg |-> Serialize(pre.content, format),
                        fmt |-> format]>>
       /\ BagIn(EnterTask, inflight)
       /\ content = pre.content
       /\ sourceValue = pre.sourceValue
  /\ (EnterSeen /\ ~hasSwitchToSource) =>
       /\ hookCall = <<>>
       /\ sourceValue = Serialize(pre.content, format)
       /\ ~showLinkInput
       /\ content = pre.content
  /\ lastOp = "enterResolve" =>
       /\ settled.kind = "enter"
       /\ sourceValue = settled.result
       /\ ~showLinkInput
       /\ content = pre.content

\* The enter hook resolved with a transformed buffer.
C7_Witness ==
  /\ lastOp = "enterResolve"
  /\ settled.result # Serialize(content, format)
  /\ sourceValue = settled.result
  /\ ~showLinkInput
  /\ mode = "source"

C9_TeardownCancelsTimer ==
  /\ ~mounted => timers = {}
  /\ lastOp = "timer" => mounted

\* The component was torn down in the middle of a burst of keystrokes.
C9_Witness ==
  /\ lastOp = "unmount"
  /\ burstEnd.how = "cancelled"
  /\ burstEnd.keys >= 2
  /\ timers = {}

\* C10: the engine is editable exactly when the component is not disabled
\* and the mode is wysiwyg; the textarea and the wysiwyg surface take no
\* input while disabled.
C10_Editability ==
  /\ editable <=> (~disabled /\ mode = "wysiwyg")
  /\ mode = "source" => ~editable
  /\ lastOp = "keystroke" => (~disabled /\ mode = "source")
  /\ lastOp = "edit" => (~disabled /\ mode = "wysiwyg")

\* The component was disabled while in source mode.
C10_Witness ==
  /\ lastOp = "disabled"
  /\ disabled
  /\ mode = "source"
  /\ ~editable

\* C11: the content given to the engine for an empty value, as initial
\* content and as the adapter's push, is "<p></p>" when the format is html
\* and "" when it is markdown; a non-empty value is given unchanged.
C11_EmptyPlaceholder ==
  LET given == IF value # "" THEN value
               ELSE IF format = "html" THEN "<p></p>" ELSE ""
  IN
  /\ lastOp = "mount" => lastSet = InitialContent(given)
  /\ (lastOp = "value" /\ lastSet # NoSet) => lastSet = SilentSet(given)

\* The adapter pushed the placeholder for an emptied value of an html
\* instance that held text.
C11_Witness ==
  /\ lastOp = "value"
  /\ value = ""
  /\ format = "html"
  /\ pre.content = "a"
  /\ lastSet = SilentSet("<p></p>")
  /\ content = ""

\* Two characters that are the same letter in either case.
SameLetter(a, b) ==
  \/ a = b
  \/ \E p \in {<<"T", "t">>, <<"H", "h">>, <<"B", "b">>, <<"N", "n">>,
               <<"I", "i">>, <<"Q", "q">>, <<"C", "c">>, <<"A", "a">>} :
       {a, b} = {p[1], p[2]}

\* The title contains the query, letter case aside.
TitleContains(title, q) ==
  /\ Len(q) <= Len(title)
  /\ \E k \in 0..(Len(title) - Len(q)) :
       \A j \in 1..Len(q) : SameLetter(title[k + j], q[j])

\* The position in the static list of the k-th candidate.
ListPosition(k) == CHOOSE i \in 1..Len(allItems) : allItems[i] = items[k]

\* C12: while a session is active the candidate list consists of commands
\* of the static list, namely exactly those whose title contains the query
\* case-insensitively, short of any beyond the first 10 matches, in
\* list-declaration order; it is empty ("No results") exactly when no
\* title matches.
C12_SuggestionFiltering ==
  sugActive =>
    LET hits == {i \in 1..Len(allItems) : TitleContains(allItems[i].title, query)}
        first10 == {i \in hits : Cardinality({j \in hits : j < i}) < 10}
    IN
    /\ \A k \in 1..Len(items) : \E i \in 1..Len(allItems) : allItems[i] = items[k]
    /\ {ListPosition(k) : k \in 1..Len(items)} = first10
    /\ \A k, l \in 1..Len(items) : k < l => ListPosition(k) < ListPosition(l)
    /\ Len(items) <= 10
    /\ (items = <<>>) <=> (hits = {})

\* "/Tab" was typed and the only candidate is Table.
C12_Witness ==
  /\ sugActive
  /\ slashOp = "char"
  /\ query = <<"T", "a", "b">>
  /\ Len(items) = 1
  /\ items[1].title = <<"T", "a", "b", "l", "e">>

\* C13: with n candidates, n > 0, ArrowDown moves selectedIndex one down
\* and from n-1 to 0, ArrowUp moves it one up and from 0 to n-1, both keys
\* are handled, and selectedIndex is within 0..n-1 in every state of an
\* active session with candidates.
C13_SelectionWrap ==
  LET n == Len(before.items)
      was == before.selectedIndex
  IN
  /\ (sugActive /\ items # <<>>) => selectedIndex \in 0..(Len(items) - 1)
  /\ (slashOp = "ArrowDown" /\ n > 0) =>
       /\ keyResult = "handled"
       /\ selectedIndex = IF was = n - 1 THEN 0 ELSE was + 1
       /\ items = before.items
  /\ (slashOp = "ArrowUp" /\ n > 0) =>
       /\ keyResult = "handled"
       /\ selectedIndex = IF was = 0 THEN n - 1 ELSE was - 1
       /\ items = before.items

\* ArrowUp at index 0 of a list of four or more went to the last index.
C13_Witness ==
  /\ slashOp = "ArrowUp"
  /\ before.selectedIndex = 0
  /\ Len(items) >= 4
  /\ selectedIndex = Len(items) - 1

\* C14: Enter pressed in an active session with no candidates executes no
\* command, changes no session state, and is reported as handled by the
\* key handler.
C14_EnterOnEmptyConsumed ==
  (slashOp = "Enter" /\ before.active /\ before.items = <<>>) =>
    /\ ran = "none"
    /\ tx = <<>>
    /\ Session = before
    /\ keyResult = "handled"

\* C15: a render runs the enter transition exactly when the mode prop
\* changed from wysiwyg to source and the exit transition exactly when it
\* changed from source to wysiwyg; the transition invokes its hook, if
\* configured, once; no other step runs a transition or invokes a hook.
C15_TransitionOncePerChange ==
  /\ lastOp \in ModeOps =>
       /\ (lastOp = "enterSource") <=>
            (pre.modeProp = "wysiwyg" /\ mode = "source")
       /\ (lastOp = "exitSource") <=>
            (pre.modeProp = "source" /\ mode = "wysiwyg")
       /\ (lastOp = "sameMode") <=> (pre.modeProp = mode)
  /\ lastOp = "enterSource" =>
       /\ Len(hookCall) = IF hasSwitchToSource THEN 1 ELSE 0
       /\ \A i \in 1..Len(hookCall) : hookCall[i].hook = "onSwitchToSource"
  /\ lastOp = "exitSource" =>
       /\ Len(hookCall) = IF hasSwitchToEditor THEN 1 ELSE 0
       /\ \A i \in 1..Len(hookCall) : hookCall[i].hook = "onSwitchToEditor"
  /\ lastOp \notin {"enterSource", "exitSource"} => hookCall = <<>>

\* A second source session was entered, with one call of the enter hook.
C15_Witness ==
  /\ lastOp = "enterSource"
  /\ pre.modeProp = "wysiwyg"
  /\ mode = "source"
  /\ Len(hookCall) = 1
  /\ pre.sourceValue # ""

\* C16: every source keystroke sets the buffer to the typed value and
\* leaves exactly one timer, carrying that value; whenever the timer fires,
\* the value it pushes into the engine is the value of the source buffer
\* at that moment.
C16_DebouncedPropagation ==
  /\ lastOp = "keystroke" =>
       /\ sourceValue = lastKey
       /\ timers = {[id |-> sourceDebounceRef, nextValue |-> sourceValue]}
  /\ lastOp = "timer" => lastSet = NormalSet(sourceValue)

\* C17: in every source-mode state with no debounce timer outstanding and
\* no hook call pending, the engine's document is the document produced
\* from the source buffer.
C17_SingleAuthoritativeCopy ==
  (mounted /\ mode = "source" /\ timers = {} /\ BagCardinality(inflight) = 0)
    => content = Parse(sourceValue, format)

\* C18: a change of mode leaves every pending hook call pending, and a
\* call that resolves has its result applied whatever the mode is by then:
\* an enter result becomes the source buffer, an exit result is pushed
\* into the engine.
C18_HooksNotCancelled ==
  /\ lastOp \in ModeOps =>
       \A t \in BagToSet(pre.pending) :
         CopiesIn(t, inflight) >= CopiesIn(t, pre.pending)
  /\ lastOp = "enterResolve" =>
       /\ settled.kind = "enter"
       /\ sourceValue = settled.result
  /\ lastOp = "exitResolve" =>
       /\ settled.kind = "exit"
       /\ lastSet = NormalSet(settled.result)
       /\ content = Parse(settled.result, format)

\* An enter hook resolved after the mode had gone back to wysiwyg, and its
\* result replaced the buffer.
C18_Witness ==
  /\ lastOp = "enterResolve"
  /\ mode = "wysiwyg"
  /\ sourceValue = settled.result
  /\ sourceValue # Serialize(content, format)

\* C19: when a hook call rejects, the source buffer, the link input, the
\* engine's document and the timers are as they were, no content-set and
\* no onChange call is made, no timer is outstanding outside source mode,
\* and nothing is retried: no hook is invoked, the rejected call is gone
\* and the mode effect has already recorded the mode.
C19_HookFailureUnhandled ==
  lastOp = "reject" =>
    /\ settled.kind \in {"enter", "exit"}
    /\ sourceValue = pre.sourceValue
    /\ showLinkInput = pre.link
    /\ content = pre.content
    /\ lastSet = NoSet
    /\ onChangeCalls = <<>>
    /\ timers = pre.timers
    /\ mode # "source" => timers = {}
    /\ hookCall = <<>>
    /\ BagCardinality(inflight) + 1 = BagCardinality(pre.pending)
    /\ prevModeRef = mode

\* The exit hook rejected: the typed buffer was not pushed and the mode
\* stays wysiwyg with the old document.
C19_Witness ==
  /\ lastOp = "reject"
  /\ settled.kind = "exit"
  /\ mode = "wysiwyg"
  /\ sourceValue # Serialize(content, format)
  /\ Parse(sourceValue, format) # content
  /\ timers = {}

\* The last step confirmed a candidate: Enter with candidates, or a click.
ConfirmSeen == (slashOp = "Enter" /\ before.items # <<>>) \/ slashOp = "click"

\* The position in the static list of the item whose command was called.
RanIndex == CHOOSE i \in 1..Len(allItems) : allItems[i].title = ran

\* What each entry of the static list does to the document, by position:
\* Text, Heading 1-3, Bulleted list, Numbered list, Image, Table, Quote,
\* Code block.
ExpectedStep(i) ==
  CASE i = 1 -> "setParagraph" [] i \in 2..4 -> "setHeading"
    [] i = 5 -> "toggleBulletList" [] i = 6 -> "toggleOrderedList"
    [] i = 7 -> "setImage" [] i = 8 -> "insertTable"
    [] i = 9 -> "toggleBlockquote" [] i = 10 -> "toggleCodeBlock"

ExpectedBlock(i, b) ==
  CASE i = 1 -> [b EXCEPT !.type = "paragraph", !.level = 0]
    [] i \in 2..4 -> [b EXCEPT !.type = "heading", !.level = i - 1]
    [] i = 5 -> [b EXCEPT !.list = IF @ = "bulletList" THEN "none" ELSE "bulletList"]
    [] i = 6 -> [b EXCEPT !.list = IF @ = "orderedList" THEN "none" ELSE "orderedList"]
    [] i = 9 -> [b EXCEPT !.quote = ~@]
    [] i = 10 -> [b EXCEPT !.type = IF @ = "codeBlock" THEN "paragraph" ELSE "codeBlock",
                           !.level = 0]
    [] OTHER -> b

ExpectedInsert(i) == CASE i = 7 -> "image" [] i = 8 -> "table" [] OTHER -> "none"

\* The candidate confirmed by Enter is the one at selectedIndex; a click
\* confirms a candidate of the list.
ConfirmedCandidate ==
  /\ ran # "none"
  /\ \E k \in 1..Len(before.items) : before.items[k].title = ran
  /\ slashOp = "Enter" => ran = before.items[before.selectedIndex + 1].title

\* One transaction deleted the trigger range and applied the command's
\* mutation, and the session is over.
ConfirmEffect ==
  /\ rangeText = <<>>
  /\ tx = << <<"focus", "deleteRange", ExpectedStep(RanIndex)>> >>
  /\ block = ExpectedBlock(RanIndex, blockBefore)
  /\ inserted = ExpectedInsert(RanIndex)
  /\ ~sugActive

C21_EscapeExits ==
  (slashOp = "Escape" /\ before.active) =>
    /\ ran = "none"
    /\ tx = <<>>
    /\ ~sugActive

\* The keys the session handles.
HandledKeys == {"ArrowUp", "ArrowDown", "Enter", "Escape"}

\* C22: in an active session ArrowUp, ArrowDown, Enter and Escape are
\* reported as handled by the session's key handler, so that the engine's
\* default handling of the key does not run; every other key is reported
\* as not handled.
C22_HandledKeysPreventDefault ==
  /\ (before.active /\ slashOp \in HandledKeys) => keyResult = "handled"
  /\ (before.active /\ slashOp \in {"char", "backspace"}) =>
       keyResult = "unhandled"

\* The last step started the session or reported a changed query.
QueryUpdateSeen == sugActive /\ slashOp \in {"trigger", "char", "backspace"}

\* C23: selectedIndex is 0 when a session starts and after every query
\* update, and Enter pressed right after a query update confirms the first
\* candidate of the new list.
C23_SelectedIndexReset ==
  /\ [](QueryUpdateSeen => selectedIndex = 0)
  /\ [][(QueryUpdateSeen /\ items # <<>> /\ slashOp' = "Enter")
          => ran' = items[1].title]_vars

\* Enter confirmed the first candidate of a list of several, produced by a
\* query.
C23_Witness ==
  /\ slashOp = "Enter"
  /\ before.query # <<>>
  /\ Len(before.items) > 1
  /\ before.selectedIndex = 0
  /\ ran = before.items[1].title

\* ------------------------------------------------------------- liveness
\* The debounce delay elapses: typing pauses for sourceDebounceMs, so an
\* outstanding timer eventually fires unless it is cleared for good.  A
\* pending onSwitchToEditor call eventually resolves unless it rejects or
\* the component is torn down first.
Fairness ==
  /\ WF_vars(\E t \in timers : TimerFire(t))
  /\ \A s \in Strings : WF_vars(\E r \in Strings : ExitResolve(ExitTask(s), r))

SpecLive == Init /\ [][Next]_vars /\ Fairness

\* The claim is about components that are not torn down and whose hooks
\* resolve.
TornDownOrRejected == ~mounted \/ lastOp = "reject"

\* The debounce timer fired: a normal content-set with the last keystroke
\* of the burst, reported to onChange.
TimerPushed ==
  /\ lastOp = "timer"
  /\ lastSet = NormalSet(burstEnd.key)
  /\ onChangeCalls = <<Serialize(content, format)>>

\* exitSourceMode() pushed the buffer it started from, without a hook.
ExitPushedNow ==
  /\ lastOp = "exitSource"
  /\ lastSet = NormalSet(pre.sourceValue)
  /\ onChangeCalls = <<Serialize(content, format)>>

\* exitSourceMode() started from buffer s and awaits onSwitchToEditor.
ExitAwaits(s) ==
  /\ lastOp = "exitSource"
  /\ pre.sourceValue = s
  /\ BagIn(ExitTask(s), inflight)

\* The rest of an exitSourceMode() that started from buffer s pushed the
\* hook's result.
ExitPushedLater(s) ==
  /\ lastOp = "exitResolve"
  /\ settled.arg = s
  /\ lastSet = NormalSet(settled.result)
  /\ onChangeCalls = <<Serialize(content, format)>>

BufferWriters == {"enterSource", "enterResolve", "keystroke", "exitResolve"}

\* C25: the source buffer changes only in an enter transition or its
\* completion, in a source keystroke, or in the completion of an exit
\* whose hook result differs from the buffer it was called with.  A change
\* of `value` leaves the buffer alone and makes no normal content-set, and
\* an exit without hook pushes the buffer into the engine whatever `value`
\* had put there.
C25_BufferWriters ==
  [][/\ sourceValue' # sourceValue =>
          /\ lastOp' \in BufferWriters
          /\ lastOp' = "exitResolve" =>
               (settled'.result # settled'.arg /\ sourceValue' = settled'.result)
     /\ lastOp' = "value" =>
          (sourceValue' = sourceValue /\ lastSet'.kind # "normal")
     /\ (lastOp' = "exitSource" /\ ~hasSwitchToEditor) =>
          /\ lastSet' = NormalSet(sourceValue)
          /\ content' = Parse(sourceValue, format)
    ]_vars

\* The engine held the external value, pushed during the source session,
\* and the exit replaced it by the differing buffer.
C25_Witness ==
  /\ lastOp = "exitSource"
  /\ pre.content = Parse(ContentOrPlaceholder(value, format), format)
  /\ pre.content # Parse(pre.sourceValue, format)
  /\ pre.sourceValue # ""
  /\ value # ""
  /\ content = Parse(pre.sourceValue, format)
  /\ lastSet = NormalSet(pre.sourceValue)

\* A source session in which nothing has written the buffer: no hook call
\* was made or is pending and the buffer is the empty string.
FreshSource ==
  /\ mode = "source"
  /\ sourceValue = ""
  /\ hookCall = <<>>
  /\ inflight = EmptyBag

\* C26: a component mounted in source mode runs no enter transition:
\* onSwitchToSource is not called and the source buffer is the empty
\* string, and this stays so through every step that is neither a source
\* keystroke nor a change of mode.
C26_MountInSourceMode ==
  /\ []((lastOp = "mount" /\ mode = "source") => FreshSource)
  /\ [][(FreshSource /\ lastOp' # "keystroke" /\ mode' = mode) => FreshSource']_vars

\* Mounted in source mode with a non-empty value and onSwitchToSource
\* configured; the value changed afterwards and the buffer is still empty.
C26_Witness ==
  /\ lastOp = "value"
  /\ FreshSource
  /\ hasSwitchToSource
  /\ value # ""
  /\ content # ""

\* An exit transition began while the onSwitchToSource call of the source
\* session it ends was still pending and nothing had been typed: the
\* buffer it starts from was written before that session was entered.
ExitBeforeEnterCompleted ==
  /\ lastOp = "exitSource"
  /\ BagIn(EnterTask, pre.pending)
  /\ roundTrip # "-"

\* C27: an exit transition never pushes a buffer that predates the most
\* recent enter transition: when the mode flips back to wysiwyg while
\* onSwitchToSource is still pending, the stale buffer is neither pushed
\* into the engine nor handed to onSwitchToEditor.
C27_ExitNeverPushesStaleBuffer ==
  ExitBeforeEnterCompleted => (lastSet.kind # "normal" /\ hookCall = <<>>)

\* onSwitchToSource resolved after a keystroke whose debounce timer is
\* still outstanding.
ResolvedAfterKeystroke ==
  /\ lastOp = "enterResolve"
  /\ mode = "source"
  /\ burstKeys > 0

\* C28: a keystroke typed while onSwitchToSource is pending is not lost:
\* once the hook has resolved the source buffer still holds the keystroke's
\* value, which is also the value its debounce timer carries.
C28_KeystrokeSurvivesEnterHook ==
  ResolvedAfterKeystroke =>
    /\ sourceValue = lastKey
    /\ \A t \in timers : t.nextValue = sourceValue

\* The last step gave the engine a string to load: as initial content, by
\* the value sync effect, by the debounce timer or by the exit transition.
ContentGiven == lastSet.kind \in {"initial", "silent", "normal"}

\* C29: in html format the engine is never given the empty string as
\* content, on any of the paths that give it content.
C29_NeverEmptyHtml ==
  (format = "html" /\ ContentGiven) => lastSet.arg # ""

\* ================================================= bubble-menu variant
\* The Editor variant with three inline popovers in its bubble menu (link
\* input, table actions, image alt input).

\* What the user types into the link and alt inputs.
InputTexts == {"", " ", "u", " u"}

\* String.prototype.trim on the texts that occur.
trim(t) == CASE t = " " -> "" [] t = " u" -> "u" [] OTHER -> t

\* The popovers of the variant.
Popovers == [link |-> menu.showLinkInput, table |-> menu.showTableActions,
             alt |-> menu.showAltInput]
NoPopover == [link |-> FALSE, table |-> FALSE, alt |-> FALSE]

\* The variant after mount, with a collapsed selection in plain text: the
\* mount run of updateTableContext finds neither a table nor an image.
InitMenu(dis) ==
  [showLinkInput |-> FALSE, showTableActions |-> FALSE, showAltInput |-> FALSE,
   isInTable |-> FALSE, isOnImage |-> FALSE, linkUrl |-> "", imageAltText |-> "",
   disabled |-> dis, linkHref |-> "none", imageAlt |-> "none",
   op |-> "mount", prev |-> NoPopover]

InitBubble ==
  /\ InitEditor
  /\ value = "" /\ mode = "wysiwyg" /\ ~disabled /\ format = "html"
  /\ ~hasSwitchToSource /\ ~hasSwitchToEditor
  /\ sug = Idle
  /\ menu \in {InitMenu(dis) : dis \in BOOLEAN}

\* One step of the variant: the handler's assignments and the observation
\* of the step, everything else as it was.
MenuStep(op, assigned) ==
  menu' = assigned @@ [op |-> op, prev |-> Popovers] @@ menu

\* updateTableContext(), run on every selectionUpdate and transaction.
updateTableContext(nextIsInTable, nextIsOnImage) ==
  [isInTable |-> nextIsInTable,
   showTableActions |-> IF ~nextIsInTable THEN FALSE ELSE menu.showTableActions,
   isOnImage |-> nextIsOnImage,
   showAltInput |-> IF ~nextIsOnImage THEN FALSE ELSE menu.showAltInput]

\* A transaction that leaves the selection where it is.
transaction == updateTableContext(menu.isInTable, menu.isOnImage)

\* openLinkInput()
openLinkInputOfMenu ==
  IF menu.showLinkInput
    THEN [showLinkInput |-> FALSE]
    ELSE [linkUrl |-> IF menu.linkHref # "none" THEN menu.linkHref ELSE "",
          showLinkInput |-> TRUE, showTableActions |-> FALSE,
          showAltInput |-> FALSE]

\* toggleTableActions() without closing the other popovers.
toggleTableActionsOnly ==
  IF ~menu.isInTable
    THEN [showTableActions |-> menu.showTableActions]
    ELSE [showTableActions |-> ~menu.showTableActions]

\* toggleTableActions()
toggleTableActions ==
  IF ~menu.isInTable
    THEN [showTableActions |-> menu.showTableActions]
    ELSE [showTableActions |-> ~menu.showTableActions,
          showLinkInput |-> FALSE, showAltInput |-> FALSE]

\* toggleAltInput()
toggleAltInput ==
  IF ~menu.isOnImage THEN [showAltInput |-> menu.showAltInput]
  ELSE IF menu.showAltInput THEN [showAltInput |-> FALSE]
  ELSE [imageAltText |-> IF menu.imageAlt # "none" THEN menu.imageAlt ELSE "",
        showAltInput |-> TRUE, showLinkInput |-> FALSE,
        showTableActions |-> FALSE]

\* applyLink()
applyLink ==
  IF trim(menu.linkUrl) = ""
    THEN [showLinkInput |-> menu.showLinkInput]
    ELSE [showLinkInput |-> FALSE, linkHref |-> trim(menu.linkUrl)]
         @@ transaction

\* removeLink()
removeLink ==
  [showLinkInput |-> FALSE, linkUrl |-> "", linkHref |-> "none"] @@ transaction

\* confirmOrRemoveLink()
confirmOrRemoveLink ==
  IF trim(menu.linkUrl) # "" \/ menu.linkHref # "none"
    THEN removeLink
    ELSE [showLinkInput |-> FALSE]

\* applyImageAlt(): alt: trimmed || null
applyImageAlt ==
  IF ~menu.isOnImage
    THEN [showAltInput |-> menu.showAltInput]
    ELSE [showAltInput |-> FALSE,
          imageAlt |-> IF trim(menu.imageAltText) # ""
                         THEN trim(menu.imageAltText) ELSE "none"]
         @@ transaction

\* clearImageAlt()
clearImageAlt ==
  IF ~menu.isOnImage
    THEN [showAltInput |-> menu.showAltInput]
    ELSE [showAltInput |-> FALSE, imageAltText |-> "", imageAlt |-> "none"]
         @@ transaction

\* The buttons and inputs of the bubble menu take input unless disabled.
ClickLink ==
  /\ ~menu.disabled
  /\ MenuStep("openLinkInput", openLinkInputOfMenu)
  /\ UNCHANGED <<editor, slash>>

\* The Table button is rendered while isInTable.
ClickTable ==
  /\ ~menu.disabled
  /\ menu.isInTable
  /\ MenuStep("toggleTableActions", toggleTableActions)
  /\ UNCHANGED <<editor, slash>>

\* The ALT button is rendered while isOnImage.
ClickAlt ==
  /\ ~menu.disabled
  /\ menu.isOnImage
  /\ MenuStep("toggleAltInput", toggleAltInput)
  /\ UNCHANGED <<editor, slash>>

\* onChange of the link input.
TypeLinkUrl(t) ==
  /\ ~menu.disabled
  /\ menu.showLinkInput
  /\ t # menu.linkUrl
  /\ MenuStep("setLinkUrl", [linkUrl |-> t])
  /\ UNCHANGED <<editor, slash>>

\* onChange of the alt input.
TypeImageAlt(t) ==
  /\ ~menu.disabled
  /\ menu.showAltInput /\ menu.isOnImage
  /\ t # menu.imageAltText
  /\ MenuStep("setImageAltText", [imageAltText |-> t])
  /\ UNCHANGED <<editor, slash>>

\* Enter in the link input; the Set link button is disabled while the
\* trimmed text is empty.
SubmitLink(byButton) ==
  /\ ~menu.disabled
  /\ menu.showLinkInput
  /\ byButton => trim(menu.linkUrl) # ""
  /\ MenuStep("applyLink", applyLink)
  /\ UNCHANGED <<editor, slash>>

\* The Remove link button.
ClickRemoveLink ==
  /\ ~menu.disabled
  /\ menu.showLinkInput
  /\ MenuStep("confirmOrRemoveLink", confirmOrRemoveLink)
  /\ UNCHANGED <<editor, slash>>

\* The Save alt text button.
ClickSaveAlt ==
  /\ ~menu.disabled
  /\ menu.showAltInput /\ menu.isOnImage
  /\ MenuStep("applyImageAlt", applyImageAlt)
  /\ UNCHANGED <<editor, slash>>

\* The Remove alt text button.
ClickRemoveAlt ==
  /\ ~menu.disabled
  /\ menu.showAltInput /\ menu.isOnImage
  /\ MenuStep("clearImageAlt", clearImageAlt)
  /\ UNCHANGED <<editor, slash>>

\* addRow / removeRow / addColumn / removeColumn: a transaction; removing
\* the last row or column deletes the table and the selection ends up in
\* plain text.
ClickTableAction(deletesTable) ==
  /\ ~menu.disabled
  /\ menu.showTableActions /\ menu.isInTable
  /\ MenuStep("tableAction",
              IF deletesTable
                THEN [linkHref |-> "none", imageAlt |-> "none"]
                     @@ updateTableContext(FALSE, FALSE)
                ELSE transaction)
  /\ UNCHANGED <<editor, slash>>

\* The selection moves: into or out of a table, onto or off an image (with
\* its alt), into or out of a link.
SelectionUpdate(inTable, onImage, href, alt) ==
  /\ onImage <=> (alt # "absent")
  /\ <<inTable, onImage, href, alt>> #
       <<menu.isInTable, menu.isOnImage, menu.linkHref,
         IF menu.isOnImage THEN menu.imageAlt ELSE "absent">>
  /\ MenuStep("selectionUpdate",
              [linkHref |-> href,
               imageAlt |-> IF onImage THEN alt ELSE "none"]
              @@ updateTableContext(inTable, onImage))
  /\ UNCHANGED <<editor, slash>>

\* onPointerDown outside the bubble menu; the listener is registered while
\* a popover is shown.
PointerDownOutside ==
  /\ menu.showLinkInput \/ menu.showTableActions \/ menu.showAltInput
  /\ MenuStep("pointerdown",
              [showLinkInput |-> FALSE, showTableActions |-> FALSE,
               showAltInput |-> FALSE])
  /\ UNCHANGED <<editor, slash>>

\* The owner re-renders the variant with another `disabled`.
SetMenuDisabled(b) ==
  /\ b # menu.disabled
  /\ MenuStep("disabled", [disabled |-> b])
  /\ UNCHANGED <<editor, slash>>

NextBubble ==
  \/ ClickLink
  \/ ClickTable
  \/ ClickAlt
  \/ \E t \in InputTexts : TypeLinkUrl(t)
  \/ \E t \in InputTexts : TypeImageAlt(t)
  \/ \E byButton \in BOOLEAN : SubmitLink(byButton)
  \/ ClickRemoveLink
  \/ ClickSaveAlt
  \/ ClickRemoveAlt
  \/ \E deletesTable \in BOOLEAN : ClickTableAction(deletesTable)
  \/ \E inTable \in BOOLEAN, onImage \in BOOLEAN, href \in {"none", "u"},
        alt \in {"absent", "none", "u"} :
       SelectionUpdate(inTable, onImage, href, alt)
  \/ PointerDownOutside
  \/ \E b \in BOOLEAN : SetMenuDisabled(b)

SpecBubble == InitBubble /\ [][NextBubble]_vars

\* The number of popovers open.
OpenCount(p) ==
  (IF p.link THEN 1 ELSE 0) + (IF p.table THEN 1 ELSE 0) + (IF p.alt THEN 1 ELSE 0)

\* C30: in the bubble-menu variant at most one of the three popovers is
\* open in every reachable state: a step that opens one leaves the other
\* two closed, a pointer-down outside the menu closes all three, and the
\* table actions are open only with the selection in a table, the alt input
\* only with the selection on an image.
C30_AtMostOnePopover ==
  /\ OpenCount(Popovers) <= 1
  /\ menu.op = "pointerdown" => Popovers = NoPopover
  /\ (menu.op = "openLinkInput" /\ ~menu.prev.link) =>
       menu.showLinkInput /\ ~menu.showTableActions /\ ~menu.showAltInput
  /\ (menu.op = "toggleTableActions" /\ ~menu.prev.table) =>
       menu.showTableActions /\ ~menu.showLinkInput /\ ~menu.showAltInput
  /\ (menu.op = "toggleAltInput" /\ ~menu.prev.alt) =>
       menu.showAltInput /\ ~menu.showLinkInput /\ ~menu.showTableActions
  /\ menu.showTableActions => menu.isInTable
  /\ menu.showAltInput => menu.isOnImage

\* The table actions were opened while the link input was open, and the
\* link input closed.
C30_Witness ==
  /\ menu.op = "toggleTableActions"
  /\ menu.prev.link
  /\ menu.showTableActions
  /\ ~menu.showLinkInput
====
